---- MODULE Spec2Model ----
(***************************************************************************)
(* Connect Four: the board state machine of src/src/game.rs and the MCTS   *)
(* engine of src/src/mcts.rs, as state machines.                           *)
(***************************************************************************)
EXTENDS Integers, Sequences, FiniteSets, TLC

\* ------------------------------------------------------------------------
\* Program constants (game.rs)
\* ------------------------------------------------------------------------
NUM_COLS == 7
NUM_ROWS == 6

\* ------------------------------------------------------------------------
\* Bounds of the model
\* ------------------------------------------------------------------------
\* Stones a caller may drop on a board that started empty.
MaxStones == 4
\* Stones a caller may drop once a scripted position has been set up.
MaxExtra == 1

Cols == 0 .. (NUM_COLS - 1)
Rows == 0 .. (NUM_ROWS - 1)
Cells == Cols \X Rows
Players == {"A", "B"}
Tokens == {"OWN", "OPPONENT"}

Other(p) == IF p = "A" THEN "B" ELSE "A"

\* ------------------------------------------------------------------------
\* game.rs : struct Game and its methods, as operators on a record
\* ------------------------------------------------------------------------
GameNew ==
    [ num_stones     |-> [c \in Cols |-> 0],
      state          |-> << >>,
      current_player |-> "A" ]

current_player(g) == g.current_player

\* HashMap::get : Some(&token) or None
Get(g, col, row) ==
    IF <<col, row>> \in DOMAIN g.state THEN g.state[<<col, row>>] ELSE "NONE"

FlipToken(s) == IF s = "OWN" THEN "OPPONENT" ELSE "OWN"

\* next_player that forgets to relabel the cells
next_player_norelabel(g) ==
    [ g EXCEPT !.current_player = Other(g.current_player) ]

next_player(g) ==
    [ g EXCEPT !.current_player = Other(g.current_player),
               !.state = [k \in DOMAIN g.state |-> FlipToken(g.state[k])] ]

check_horizontal(g) ==
    \E col \in 0 .. (NUM_COLS - 3 - 1) :
        \E row \in 0 .. (g.num_stones[col] - 1) :
            /\ Get(g, col, row) = "OWN"
            /\ Get(g, col + 1, row) = "OWN"
            /\ Get(g, col + 2, row) = "OWN"
            /\ Get(g, col + 3, row) = "OWN"

check_vertical(g) ==
    \E col \in 0 .. (NUM_COLS - 1) :
        /\ ~ (g.num_stones[col] <= 3)
        /\ \E row \in 0 .. (g.num_stones[col] - 3 - 1) :
            /\ Get(g, col, row) = "OWN"
            /\ Get(g, col, row + 1) = "OWN"
            /\ Get(g, col, row + 2) = "OWN"
            /\ Get(g, col, row + 3) = "OWN"

\* check_diag_fall whose column scan stops one column short
check_diag_fall_short(g) ==
    \E col \in 0 .. (NUM_COLS - 4 - 1) :
        /\ ~ (g.num_stones[col] <= 3)
        /\ \E row \in 3 .. (g.num_stones[col] - 1) :
            /\ Get(g, col, row) = "OWN"
            /\ Get(g, col + 1, row - 1) = "OWN"
            /\ Get(g, col + 2, row - 2) = "OWN"
            /\ Get(g, col + 3, row - 3) = "OWN"

check_diag_fall(g) ==
    \E col \in 0 .. (NUM_COLS - 3 - 1) :
        /\ ~ (g.num_stones[col] <= 3)
        /\ \E row \in 3 .. (g.num_stones[col] - 1) :
            /\ Get(g, col, row) = "OWN"
            /\ Get(g, col + 1, row - 1) = "OWN"
            /\ Get(g, col + 2, row - 2) = "OWN"
            /\ Get(g, col + 3, row - 3) = "OWN"

check_diag_rise(g) ==
    \E col \in 0 .. (NUM_COLS - 3 - 1) :
        \E row \in 0 .. (g.num_stones[col] - 1) :
            /\ Get(g, col, row) = "OWN"
            /\ Get(g, col + 1, row + 1) = "OWN"
            /\ Get(g, col + 2, row + 2) = "OWN"
            /\ Get(g, col + 3, row + 3) = "OWN"

is_win(g) ==
    \/ check_horizontal(g)
    \/ check_vertical(g)
    \/ check_diag_rise(g)
    \/ check_diag_fall(g)

is_terminal(g) ==
    is_win(g) \/ (Cardinality(DOMAIN g.state) = NUM_COLS * NUM_ROWS)

\* The result of a call: what it returned (or that it panicked) and the
\* receiver afterwards.  A panic leaves the receiver as it was.
Returned(kind, val, g) == [ kind |-> kind, val |-> val, g |-> g ]

\* play_move with `row > NUM_ROWS` for `row >= NUM_ROWS`
play_move_gt(g, col) ==
    IF col \notin DOMAIN g.num_stones
    THEN Returned("Panic", 0, g)
    ELSE LET row == g.num_stones[col] IN
         IF row > NUM_ROWS \/ col >= NUM_COLS
         THEN Returned("None", 0, g)
         ELSE Returned("Some", row,
                  [ g EXCEPT !.num_stones[col] = @ + 1,
                             !.state = (<<col, row>> :> "OWN") @@ g.state ])

\* play_move with `&&` for `||` in its test
play_move_and(g, col) ==
    IF col \notin DOMAIN g.num_stones
    THEN Returned("Panic", 0, g)
    ELSE LET row == g.num_stones[col] IN
         IF row >= NUM_ROWS /\ col >= NUM_COLS
         THEN Returned("None", 0, g)
         ELSE Returned("Some", row,
                  [ g EXCEPT !.num_stones[col] = @ + 1,
                             !.state = (<<col, row>> :> "OWN") @@ g.state ])

\* play_move that hands the turn over after the drop
play_move_switch(g, col) ==
    IF col \notin DOMAIN g.num_stones
    THEN Returned("Panic", 0, g)
    ELSE LET row == g.num_stones[col] IN
         IF row >= NUM_ROWS \/ col >= NUM_COLS
         THEN Returned("None", 0, g)
         ELSE Returned("Some", row,
                  [ g EXCEPT !.num_stones[col] = @ + 1,
                             !.state = (<<col, row>> :> "OWN") @@ g.state,
                             !.current_player = Other(g.current_player) ])

\* play_move reads num_stones[col] first: an index past the array panics
\* before the range test of the next line is reached.
play_move(g, col) ==
    IF col \notin DOMAIN g.num_stones
    THEN Returned("Panic", 0, g)
    ELSE LET row == g.num_stones[col] IN
         IF row >= NUM_ROWS \/ col >= NUM_COLS
         THEN Returned("None", 0, g)
         ELSE Returned("Some", row,
                  [ g EXCEPT !.num_stones[col] = @ + 1,
                             !.state = (<<col, row>> :> "OWN") @@ g.state ])

ColSeq == [i \in 1 .. NUM_COLS |-> i - 1]

HasRoom(g, c) == g.num_stones[c] < NUM_ROWS

\* legal_moves without the test for a finished game
legal_moves_open(g) == SelectSeq(ColSeq, LAMBDA c : HasRoom(g, c))

legal_moves(g) ==
    IF is_terminal(g)
    THEN << >>
    ELSE SelectSeq(ColSeq, LAMBDA c : HasRoom(g, c))


\* ------------------------------------------------------------------------
\* main.rs : the column a mouse click is mapped to
\* ------------------------------------------------------------------------
MARGIN == 40
SPACING == 100
WIDTH == NUM_COLS * SPACING + 2 * MARGIN

\* MouseButtonDown: clicks outside the margins are skipped.
ClickAccepted(x) == ~ (x < MARGIN \/ x > (WIDTH - MARGIN))

ClickCol(x) == (x - MARGIN) \div SPACING

\* One click on the left edge of every column, the rightmost pixel the
\* handler accepts, and one pixel on each side outside the margins.
ClickXs == {MARGIN + c * SPACING : c \in 0 .. NUM_COLS} \cup {0, WIDTH}

ClickedCols == {ClickCol(x) : x \in {y \in ClickXs : ClickAccepted(y)}}

\* ------------------------------------------------------------------------
\* Scripted positions: call sequences that set up a board, as the tests of
\* game.rs do (test_diag_rise, test_diag_fall, test_legal_moves).
\* ------------------------------------------------------------------------
PlayOp(c) == [op |-> "play_move", col |-> c]
NextOp == [op |-> "next_player", col |-> 0]

Dirs == { <<1, 0>>, <<0, 1>>, <<1, 1>>, <<1, -1>> }

Line(c, r, d) == [i \in 1 .. 4 |-> <<c + (i - 1) * d[1], r + (i - 1) * d[2]>>]

\* Every four cells in a row that lie inside the grid.
Lines ==
    { Line(c, r, d) : <<c, r, d>> \in
        { t \in Cols \X Rows \X Dirs :
            \A i \in 1 .. 4 : Line(t[1], t[2], t[3])[i] \in Cells } }

SetMax(S) == CHOOSE m \in S : \A x \in S : x <= m

\* The smallest board holding line L.  Variant 0: its four cells OWN;
\* variant k in 1..4: cell k OPPONENT; variant 4+k: cell k (and what is
\* above it) not yet dropped.  Cells under the line are OPPONENT.
LineHeights(L, v) ==
    [c \in Cols |->
        LET full == SetMax({0} \cup {L[i][2] + 1 : i \in {j \in 1 .. 4 : L[j][1] = c}})
        IN  IF v > 4 /\ L[v - 4][1] = c /\ L[v - 4][2] < full
            THEN L[v - 4][2]
            ELSE full]

LineLabel(L, v, cell) ==
    IF \E i \in 1 .. 4 : L[i] = cell /\ i # v THEN "OWN" ELSE "OPPONENT"

\* A full board without four in a row for either side.
DrawLabel(cell) ==
    IF ((cell[1] \div 2) + cell[2]) % 2 = 0 THEN "OWN" ELSE "OPPONENT"

\* The draw board with the top cell of the columns of S still empty.
NearFullHeights(S) == [c \in Cols |-> IF c \in S THEN NUM_ROWS - 1 ELSE NUM_ROWS]

RECURSIVE CellsFrom(_, _, _)
CellsFrom(h, c, r) ==
    IF c >= NUM_COLS THEN << >>
    ELSE IF r >= h[c] THEN CellsFrom(h, c + 1, 0)
    ELSE << <<c, r>> >> \o CellsFrom(h, c, r + 1)

\* The calls that build the cells in order with the labels lab(cell): a
\* stone is dropped as OWN, and a turn switch follows whenever the next
\* stone (or the final position) needs the other label.
RECURSIVE OpsFor(_, _)
OpsFor(cells, lab) ==
    IF cells = << >> THEN << >>
    ELSE LET cell == Head(cells)
             rest == Tail(cells)
             flip == IF rest = << >> THEN lab[cell] = "OPPONENT"
                     ELSE lab[cell] # lab[Head(rest)]
         IN  << PlayOp(cell[1]) >> \o (IF flip THEN << NextOp >> ELSE << >>)
                \o OpsFor(rest, lab)

LineScript(L, v) ==
    OpsFor(CellsFrom(LineHeights(L, v), 0, 0),
           [cell \in Cells |-> LineLabel(L, v, cell)])

NearFullScript(S) ==
    OpsFor(CellsFrom(NearFullHeights(S), 0, 0),
           [cell \in Cells |-> DrawLabel(cell)])

Scripts ==
    { << >> }
    \cup { LineScript(L, v) : L \in Lines, v \in 0 .. 8 }
    \cup { NearFullScript(S) : S \in { T \in SUBSET Cols : Cardinality(T) \in {1, 2} } }

\* ------------------------------------------------------------------------
\* mcts.rs : struct Node
\* ------------------------------------------------------------------------
\* value and visits are f32 in the code; they only ever hold small whole
\* numbers, kept here as integers.  Scores (ucb, utility) are kept in
\* millionths, which orders and equates them exactly as f32 does for up to
\* sixteen visits; f32::MAX, the infinities and NaN are the values below.
F32_MAX == 1000000000
F32_INF == 1100000000
F32_NAN == 2000000000

NodeNew(g) == [ value |-> 0, visits |-> 0, state |-> g ]

\* value / visits in f32: 0.0 / 0.0 is NaN, x / 0.0 an infinity
F32Div(value, visits) ==
    IF visits # 0 THEN (value * 1000000) \div visits
    ELSE IF value = 0 THEN F32_NAN
    ELSE IF value > 0 THEN F32_INF ELSE 0 - F32_INF

\* 2.0 * (parent.visits.ln() / self.visits).sqrt(), in millionths, by
\* parent.visits (row) and self.visits (column), each 1 .. 16
TwoSqrtLnOver ==
    <<
       << 0, 0, 0, 0, 0, 0, 0, 0, 0, 0, 0, 0, 0, 0, 0, 0 >>,
       << 1665109, 1177410, 961351, 832555, 744659, 679778, 629352, 588705, 555036, 526554, 502049, 480676, 461818, 445019, 429929, 416277 >>,
       << 2096294, 1482304, 1210296, 1048147, 937491, 855809, 792325, 741152, 698765, 662906, 632056, 605148, 581407, 560258, 541261, 524074 >>,
       << 2354820, 1665109, 1359556, 1177410, 1053108, 961351, 890038, 832555, 784940, 744659, 710005, 679778, 653110, 629352, 608012, 588705 >>,
       << 2537272, 1794123, 1464895, 1268636, 1134703, 1035837, 958999, 897061, 845757, 802356, 765016, 732447, 703713, 678115, 655121, 634318 >>,
       << 2677132, 1893018, 1545643, 1338566, 1197250, 1092935, 1011861, 946509, 892377, 846584, 807186, 772822, 742503, 715494, 691233, 669283 >>,
       << 2789918, 1972770, 1610760, 1394959, 1247689, 1138979, 1054490, 986385, 929973, 882249, 841192, 805380, 773784, 745637, 720354, 697479 >>,
       << 2884054, 2039334, 1665109, 1442027, 1289788, 1177410, 1090070, 1019667, 961351, 912018, 869575, 832555, 799893, 770796, 744659, 721013 >>,
       << 2964608, 2096294, 1711617, 1482304, 1325813, 1210296, 1120516, 1048147, 988203, 937491, 893863, 855809, 822234, 792325, 765458, 741152 >>,
       << 3034854, 2145966, 1752174, 1517427, 1357228, 1238974, 1147067, 1072983, 1011618, 959705, 915043, 876087, 841717, 811099, 783596, 758714 >>,
       << 3097028, 2189929, 1788070, 1548514, 1385033, 1264356, 1170566, 1094965, 1032343, 979366, 933789, 894035, 858961, 827715, 799649, 774257 >>,
       << 3152717, 2229308, 1820222, 1576359, 1409938, 1287091, 1191615, 1114654, 1050906, 996977, 950580, 910111, 874406, 842599, 814028, 788179 >>,
       << 3203092, 2264928, 1849306, 1601546, 1432466, 1307657, 1210655, 1132464, 1067697, 1012907, 965769, 924653, 888378, 856062, 827035, 800773 >>,
       << 3249035, 2297415, 1875831, 1624518, 1453013, 1326413, 1228020, 1148707, 1083012, 1027435, 979621, 937916, 901120, 868341, 838897, 812259 >>,
       << 3291231, 2327252, 1900193, 1645615, 1471883, 1343639, 1243968, 1163626, 1097077, 1040779, 992343, 950097, 912823, 879618, 849792, 822808 >>,
       << 3330218, 2354820, 1922703, 1665109, 1489319, 1359556, 1258704, 1177410, 1110073, 1053108, 1004099, 961351, 923636, 890038, 859859, 832555 >>
    >>

\* ucb that scores a node without visits as 0
ucb_unvisited_zero(node, parent) ==
    IF node.visits = 0 THEN 0
    ELSE IF parent.visits = 0 THEN F32_NAN
    ELSE TwoSqrtLnOver[parent.visits][node.visits] + F32Div(node.value, node.visits)

ucb(node, parent) ==
    IF node.visits = 0 THEN F32_MAX
    ELSE IF parent.visits = 0 THEN F32_NAN   \* sqrt of ln(0) / visits = -inf
    ELSE TwoSqrtLnOver[parent.visits][node.visits] + F32Div(node.value, node.visits)

utility(node) == F32Div(node.value, node.visits)

\* ------------------------------------------------------------------------
\* mcts.rs : struct Mcts { graph, root }
\* ------------------------------------------------------------------------
\* The graph is petgraph's: nodes and edges in the order they were added
\* (NodeIndex i is nodes[i], counted from 1 here).
MctsNew ==
    [ graph |-> [ nodes |-> << NodeNew(GameNew) >>, edges |-> << >> ],
      root  |-> 1 ]

Reverse(s) == [i \in 1 .. Len(s) |-> s[Len(s) + 1 - i]]

\* Graph::edges_directed(n, Outgoing): petgraph walks a node's outgoing
\* edges from the one added last to the one added first.
edges_directed(graph, n) ==
    Reverse(SelectSeq(graph.edges, LAMBDA e : e.source = n))

\* Graph::neighbors_directed(n, Outgoing): the targets, in the same order
neighbors_directed(graph, n) ==
    LET out == edges_directed(graph, n)
    IN  [i \in 1 .. Len(out) |-> out[i].target]

\* v handed to F as a value: v is computed once
Apply(v, F(_)) == CHOOSE r \in {F(x) : x \in {v}} : TRUE

\* thread_rng(): the stream of draws, abstracted as the stream a seed
\* determines.  choose() takes the next draw modulo the slice length.
RngNext(rng) == (rng * 36 + 12) % 251

Choose(slice, rng) == slice[(rng % Len(slice)) + 1]

\* select_next_child: None for a node without children; panics when a
\* score is NaN (partial_cmp(..).unwrap(), or choice[0] on an empty choice).
select_next_child(mc, current_node, rng) ==
    LET nodes    == mc.graph.nodes
        children == neighbors_directed(mc.graph, current_node)
        score(c) == ucb(nodes[c], nodes[current_node])
    IN  IF Len(children) = 0
        THEN [kind |-> "None", node |-> 0, rng |-> rng]
        ELSE IF \E i \in 1 .. Len(children) : score(children[i]) = F32_NAN
        THEN [kind |-> "Panic", node |-> 0, rng |-> rng]
        ELSE LET max_ucb == SetMax({score(children[i]) : i \in 1 .. Len(children)})
                 choice  == SelectSeq(children, LAMBDA c : score(c) = max_ucb)
             IN  IF Len(choice) > 1
                 THEN [kind |-> "Some", node |-> Choose(choice, rng), rng |-> RngNext(rng)]
                 ELSE [kind |-> "Some", node |-> choice[1], rng |-> rng]

\* select: the loop `while let Some(next_node) = select_next_child(..)`
RECURSIVE SelectLoop(_, _, _, _)
SelectLoop(mc, current_node, path, rng) ==
    Apply(select_next_child(mc, current_node, rng),
          LAMBDA r :
            IF r.kind = "None" THEN [kind |-> "Ok", path |-> path, rng |-> rng]
            ELSE IF r.kind = "Panic" THEN [kind |-> "Panic", path |-> path, rng |-> rng]
            ELSE SelectLoop(mc, r.node, Append(path, r.node), r.rng))

select(mc, rng) == SelectLoop(mc, mc.root, << mc.root >>, rng)

\* expand that drops the stone without switching the turn first
expand_noswitch(mc, node) ==
    LET moves == legal_moves(mc.graph.nodes[node].state)
        state == mc.graph.nodes[node].state
        base  == Len(mc.graph.nodes)
        new_state(m) == play_move(state, m).g
    IN  IF Len(moves) = 0
        THEN [expanded |-> FALSE, mc |-> mc]
        ELSE [expanded |-> TRUE,
              mc |-> [mc EXCEPT
                 !.graph.nodes = @ \o [i \in 1 .. Len(moves) |-> NodeNew(new_state(moves[i]))],
                 !.graph.edges = @ \o [i \in 1 .. Len(moves) |->
                     [source |-> node, target |-> base + i, weight |-> moves[i]]]]]

\* expand that leaves out the last legal move when there are several
expand_but_last(mc, node) ==
    LET all   == legal_moves(mc.graph.nodes[node].state)
        moves == IF Len(all) > 1 THEN SubSeq(all, 1, Len(all) - 1) ELSE all
        state == mc.graph.nodes[node].state
        base  == Len(mc.graph.nodes)
        new_state(m) == play_move(next_player(state), m).g
    IN  IF Len(moves) = 0
        THEN [expanded |-> FALSE, mc |-> mc]
        ELSE [expanded |-> TRUE,
              mc |-> [mc EXCEPT
                 !.graph.nodes = @ \o [i \in 1 .. Len(moves) |-> NodeNew(new_state(moves[i]))],
                 !.graph.edges = @ \o [i \in 1 .. Len(moves) |->
                     [source |-> node, target |-> base + i, weight |-> moves[i]]]]]

\* expand: one child per legal move, added in the order of `for m in moves`
expand(mc, node) ==
    LET moves == legal_moves(mc.graph.nodes[node].state)
        state == mc.graph.nodes[node].state
        base  == Len(mc.graph.nodes)
        new_state(m) == play_move(next_player(state), m).g
    IN  IF Len(moves) = 0
        THEN [expanded |-> FALSE, mc |-> mc]
        ELSE [expanded |-> TRUE,
              mc |-> [mc EXCEPT
                 !.graph.nodes = @ \o [i \in 1 .. Len(moves) |-> NodeNew(new_state(moves[i]))],
                 !.graph.edges = @ \o [i \in 1 .. Len(moves) |->
                     [source |-> node, target |-> base + i, weight |-> moves[i]]]]]

\* a rollout pass that hands the turn over once more after the move
RolloutPass_switch_back(g, rng) ==
    LET g1    == next_player(g)
        moves == legal_moves(g1)
    IN  IF moves # << >>
        THEN [g |-> next_player(play_move(g1, Choose(moves, rng)).g), rng |-> RngNext(rng)]
        ELSE [g |-> g1, rng |-> rng]

\* a rollout pass that hands the turn over and drops no stone
RolloutPass_no_move(g, rng) ==
    [g |-> next_player(g), rng |-> RngNext(rng)]

\* rollout: one pass of the body of `while !g.is_terminal()`
RolloutPass(g, rng) ==
    LET g1    == next_player(g)
        moves == legal_moves(g1)
    IN  IF moves # << >>
        THEN [g |-> play_move(g1, Choose(moves, rng)).g, rng |-> RngNext(rng)]
        ELSE [g |-> g1, rng |-> rng]           \* println!("No legal moves ..")

\* a rollout result that names the player who did not move last
RolloutResult_other(g) == IF is_win(g) THEN Other(current_player(g)) ELSE "None"

\* rollout: what it returns for the final clone, Some(player) or None
RolloutResult(g) == IF is_win(g) THEN current_player(g) ELSE "None"

\* the value handed to backprop when every decided rollout counts as a win
Reward_any_winner(mc, winner) ==
    IF winner = "None" THEN 0 ELSE 1

\* mcts_iteration: the value handed to backprop
Reward(mc, winner) ==
    IF winner = "None" THEN 0
    ELSE IF winner = current_player(mc.graph.nodes[mc.root].state) THEN 1
    ELSE 0 - 1

RECURSIVE BackpropLoop(_, _, _)
BackpropLoop(nodes, path, value) ==
    IF path = << >> THEN nodes
    ELSE Apply([nodes EXCEPT ![Head(path)].value = @ + value,
                             ![Head(path)].visits = @ + 1],
               LAMBDA updated : BackpropLoop(updated, Tail(path), value * (0 - 1)))

\* backprop that leaves out the first node of the path
backprop_skip_first(mc, path, value) ==
    [mc EXCEPT !.graph.nodes = BackpropLoop(mc.graph.nodes, Tail(path), value * (0 - 1))]

backprop(mc, path, value) ==
    [mc EXCEPT !.graph.nodes = BackpropLoop(mc.graph.nodes, path, value)]

Last(s) == s[Len(s)]

\* best_move that keeps the first of the greatest elements
best_move_first_max(mc) ==
    LET nodes == mc.graph.nodes
        out   == edges_directed(mc.graph, mc.root)
        u(i)  == utility(nodes[out[i].target])
    IN  IF Len(out) = 0
        THEN [kind |-> "Panic", move |-> 0, utility |-> 0]
        ELSE IF Len(out) > 1 /\ \E i \in 1 .. Len(out) : u(i) = F32_NAN
        THEN [kind |-> "Panic", move |-> 0, utility |-> 0]
        ELSE LET best == CHOOSE i \in 1 .. Len(out) :
                            /\ \A j \in 1 .. Len(out) : u(j) <= u(i)
                            /\ \A j \in 1 .. (i - 1) : u(j) < u(i)
             IN  [kind |-> "Some", move |-> out[best].weight, utility |-> u(best)]

\* Iterator::max_by: None when empty; otherwise the last of the greatest
\* elements.  The comparator runs once there are two elements or more, and
\* partial_cmp(..).unwrap() panics on a NaN.
best_move(mc) ==
    LET nodes == mc.graph.nodes
        out   == edges_directed(mc.graph, mc.root)
        u(i)  == utility(nodes[out[i].target])
    IN  IF Len(out) = 0
        THEN [kind |-> "Panic", move |-> 0, utility |-> 0]
        ELSE IF Len(out) > 1 /\ \E i \in 1 .. Len(out) : u(i) = F32_NAN
        THEN [kind |-> "Panic", move |-> 0, utility |-> 0]
        ELSE LET best == SetMax({i \in 1 .. Len(out) :
                                    \A j \in 1 .. Len(out) : u(j) <= u(i)})
             IN  [kind |-> "Some", move |-> out[best].weight, utility |-> u(best)]

\* execute_move that keeps the root when the move has no edge
execute_move_silent(mc, m) ==
    LET outgoing == SelectSeq(edges_directed(mc.graph, mc.root),
                              LAMBDA e : e.weight = m)
    IN  IF Len(outgoing) = 0
        THEN [kind |-> "Unit", mc |-> mc]
        ELSE [kind |-> "Unit", mc |-> [mc EXCEPT !.root = outgoing[1].target]]

\* execute_move that clears the statistics of the node it moves the root to
execute_move_reset(mc, m) ==
    LET outgoing == SelectSeq(edges_directed(mc.graph, mc.root),
                              LAMBDA e : e.weight = m)
    IN  IF Len(outgoing) = 0
        THEN [kind |-> "Panic", mc |-> mc]
        ELSE [kind |-> "Unit",
              mc |-> [mc EXCEPT !.root = outgoing[1].target,
                                !.graph.nodes[outgoing[1].target].value = 0,
                                !.graph.nodes[outgoing[1].target].visits = 0]]

execute_move(mc, m) ==
    LET outgoing == SelectSeq(edges_directed(mc.graph, mc.root),
                              LAMBDA e : e.weight = m)
    IN  IF Len(outgoing) = 0                        \* .next().unwrap()
        THEN [kind |-> "Panic", mc |-> mc]
        ELSE [kind |-> "Unit", mc |-> [mc EXCEPT !.root = outgoing[1].target]]

\* ------------------------------------------------------------------------
\* Bounds of the engine runs
\* ------------------------------------------------------------------------
\* Engine calls on a fresh engine: MaxIter iterations, NumSeeds streams.
MaxIter == 1
NumSeeds == 2
\* Iterations a caller may run once a scripted engine run has been made.
MaxExtraIter == 0
\* The longest scripted run of iterations only.
MaxDeepIter == 8

Seeds == 0 .. (NumSeeds - 1)

IterOp(seed) == [op |-> "mcts_iteration", col |-> seed]
ExecOp(m) == [op |-> "execute_move", col |-> m]

\* n rounds of one iteration and one real move, the moves cols[1], cols[2],
\* cols[1], .., and one iteration on the position reached
RoundsScript(cols, n) ==
    [i \in 1 .. (2 * n) |->
        IF i % 2 = 1 THEN IterOp(0) ELSE ExecOp(cols[(((i \div 2) - 1) % 2) + 1])]
      \o << IterOp(0) >>

\* n iterations on the fresh engine
DeepScript(n) == [i \in 1 .. n |-> IterOp(i % NumSeeds)]

\* one iteration, a real move, and the iterations that answer it
AnswerScript(m) ==
    << IterOp(0), ExecOp(m) >> \o [i \in 1 .. 3 |-> IterOp(i % NumSeeds)]

McScripts ==
    { << >>,
      \* A drops four stones into column 0, B three into column 1
      RoundsScript(<<0, 1>>, 7),
      \* column 0 filled by both players in turn
      RoundsScript(<<0, 0>>, NUM_ROWS),
      AnswerScript(3) }
      \* iterations only: every root child visited once, and on from there
      \cup {DeepScript(n) : n \in NUM_COLS .. MaxDeepIter}

\* ------------------------------------------------------------------------
\* State
\* ------------------------------------------------------------------------
VARIABLES
    game,     \* the Game under test (main.rs: g)
    mcts,     \* the engine (main.rs: mcts)
    it,       \* the iteration in progress: its path, rollout clone and rng
    ret,      \* the last call: its name, argument and result
    owner,    \* history: the player that was active when each cell was filled
    drops,    \* history: the number of successful drops into each column
    script,   \* the set-up calls still to be made
    left,     \* the stones the caller may still drop after the set-up
    run       \* the iterations the caller may still run after the set-up

vars == << game, mcts, it, ret, owner, drops, script, left, run >>

Call(op, arg, kind, val) == [op |-> op, arg |-> arg, kind |-> kind, val |-> val]

Idle == [pc |-> "idle", path |-> << >>, g |-> GameNew, rng |-> 0]

\* A panic ends the program; a call starts when the last one has returned.
Running == ret.kind # "Panic" /\ it.pc = "idle"

\* The set-up calls come first, in order; after them the caller is free.
Scheduled(op) ==
    IF script # << >>
    THEN Head(script) = op /\ script' = Tail(script)
    ELSE script' = script

\* ------------------------------------------------------------------------
\* The board alone: callers of Game
\* ------------------------------------------------------------------------
Init ==
    /\ game = GameNew
    /\ mcts = MctsNew
    /\ it = Idle
    /\ ret = Call("new", 0, "Unit", 0)
    /\ owner = << >>
    /\ drops = [c \in Cols |-> 0]
    /\ script \in Scripts
    /\ left = IF script = << >> THEN MaxStones ELSE MaxExtra
    /\ run = 0

PlayMove(col) ==
    /\ Running
    /\ Scheduled(PlayOp(col))
    /\ LET r == play_move(game, col)
           placed == r.kind = "Some"
       IN  /\ (script = << >> /\ placed) => left > 0
           /\ left' = IF script = << >> /\ placed THEN left - 1 ELSE left
           /\ game' = r.g
           /\ ret' = Call("play_move", col, r.kind, r.val)
           /\ owner' = IF placed
                       THEN (<<col, drops[col]>> :> game.current_player) @@ owner
                       ELSE owner
           /\ drops' = IF placed THEN [drops EXCEPT ![col] = @ + 1] ELSE drops
    /\ UNCHANGED << mcts, it, run >>

NextPlayer ==
    /\ Running
    /\ Scheduled(NextOp)
    /\ game' = next_player(game)
    /\ ret' = Call("next_player", 0, "Unit", 0)
    /\ UNCHANGED << mcts, it, owner, drops, left, run >>

Next ==
    \/ \E col \in Cols \cup ClickedCols : PlayMove(col)
    \/ NextPlayer

Spec == Init /\ [][Next]_vars

\* ------------------------------------------------------------------------
\* The engine: callers of Mcts
\* ------------------------------------------------------------------------
InitMcts ==
    /\ game = GameNew
    /\ mcts = MctsNew
    /\ it = Idle
    /\ ret = Call("new", 0, "Unit", 0)
    /\ owner = << >>
    /\ drops = [c \in Cols |-> 0]
    /\ script \in McScripts
    /\ left = 0
    /\ run = IF script = << >> THEN MaxIter ELSE MaxExtraIter

\* mcts_iteration up to the rollout: select, expand, and the child picked
\* among the new children.
MctsIteration(seed) ==
    /\ Running
    /\ Scheduled(IterOp(seed))
    /\ script = << >> => run > 0
    /\ run' = IF script = << >> THEN run - 1 ELSE run
    /\ \E sel \in {select(mcts, seed)} :
        IF sel.kind = "Panic"
        THEN /\ ret' = Call("mcts_iteration", seed, "Panic", 0)
             /\ UNCHANGED << mcts, it >>
        ELSE
        \E ex \in {expand(mcts, Last(sel.path))} :
        \E next \in {IF ex.expanded
                     THEN select_next_child(ex.mc, Last(sel.path), sel.rng)
                     ELSE [kind |-> "Skip", node |-> 0, rng |-> sel.rng]} :
            /\ mcts' = ex.mc
            /\ IF next.kind \in {"None", "Panic"}            \* .unwrap()
               THEN /\ ret' = Call("mcts_iteration", seed, "Panic", 0)
                    /\ it' = it
               ELSE LET path == IF ex.expanded THEN Append(sel.path, next.node)
                                ELSE sel.path
                    IN  /\ ret' = Call("mcts_iteration", seed, "Pending", 0)
                        /\ it' = [pc |-> "rollout", path |-> path,
                                  g |-> ex.mc.graph.nodes[Last(path)].state,
                                  rng |-> next.rng]
    /\ UNCHANGED << game, owner, drops, left >>

\* rollout: one pass of its loop
RolloutStep ==
    /\ it.pc = "rollout"
    /\ ~ is_terminal(it.g)
    /\ \E r \in {RolloutPass(it.g, it.rng)} :
        it' = [it EXCEPT !.g = r.g, !.rng = r.rng]
    /\ UNCHANGED << game, mcts, ret, owner, drops, script, left, run >>

\* the rollout returns; backprop; mcts_iteration returns
IterationEnd ==
    /\ it.pc = "rollout"
    /\ is_terminal(it.g)
    /\ mcts' = backprop(mcts, it.path, Reward(mcts, RolloutResult(it.g)))
    /\ it' = Idle
    /\ ret' = [ret EXCEPT !.kind = "Unit"]
    /\ UNCHANGED << game, owner, drops, script, left, run >>

BestMove ==
    /\ Running
    /\ script = << >>
    /\ \E r \in {best_move(mcts)} :
        ret' = [op |-> "best_move", arg |-> 0, kind |-> r.kind,
                val |-> r.move, utility |-> r.utility]
    /\ UNCHANGED << game, mcts, it, owner, drops, script, left, run >>

ExecuteMove(m) ==
    /\ Running
    /\ Scheduled(ExecOp(m))
    /\ \E r \in {execute_move(mcts, m)} :
        /\ mcts' = r.mc
        /\ ret' = Call("execute_move", m, r.kind, 0)
    /\ UNCHANGED << game, it, owner, drops, left, run >>

NextMcts ==
    \/ \E seed \in Seeds : MctsIteration(seed)
    \/ RolloutStep
    \/ IterationEnd
    \/ BestMove
    \/ \E m \in Cols \cup ClickedCols : ExecuteMove(m)

SpecMcts == InitMcts /\ [][NextMcts]_vars

\* ------------------------------------------------------------------------
\* The program: main.rs keeps a board and an engine side by side
\* ------------------------------------------------------------------------
\* Iterations main may run between the moves, in the runs checked here.
MaxMainIter == 3

\* show_move: the stone is dropped if the column takes it, and the turn is
\* handed over in either case.
show_move(g, col) ==
    LET r == play_move(g, col)
    IN  IF r.kind = "Panic" THEN [kind |-> "Panic", placed |-> FALSE, g |-> g]
        ELSE [kind |-> "Unit", placed |-> r.kind = "Some", g |-> next_player(r.g)]

InitMain ==
    /\ game = GameNew
    /\ mcts = MctsNew
    /\ it = Idle
    /\ ret = Call("new", 0, "Unit", 0)
    /\ owner = << >>
    /\ drops = [c \in Cols |-> 0]
    /\ script = << >>
    /\ left = 0
    /\ run = MaxMainIter

\* A move of the game: show_move(.., &mut g, col); mcts.execute_move(col);
\* val is 1 when the stone was placed.
Move(col) ==
    /\ Running
    /\ \E s \in {show_move(game, col)} :
        IF s.kind = "Panic"
        THEN /\ ret' = Call("move", col, "Panic", 0)
             /\ UNCHANGED << game, mcts >>
        ELSE \E r \in {execute_move(mcts, col)} :
                /\ game' = s.g
                /\ mcts' = r.mc
                /\ ret' = Call("move", col, r.kind, IF s.placed THEN 1 ELSE 0)
    /\ UNCHANGED << it, owner, drops, script, left, run >>

NextMain ==
    \/ \E seed \in Seeds : MctsIteration(seed)
    \/ RolloutStep
    \/ IterationEnd
    \/ \E col \in Cols \cup ClickedCols : Move(col)

SpecMain == InitMain /\ [][NextMain]_vars

\* mcts_iteration is one call on one thread: once it has started, its
\* rollout loop keeps making passes and the call goes on to its end.
SpecMctsFair ==
    SpecMcts /\ WF_vars(RolloutStep) /\ WF_vars(IterationEnd)

\* ------------------------------------------------------------------------
\* Properties of the board (Spec)
\* ------------------------------------------------------------------------
Occupied(g) == DOMAIN g.state

\* Four OWN cells in a row, in any of the four directions, inside the grid.
FourOwn(g) == \E L \in Lines : \A i \in 1 .. 4 : Get(g, L[i][1], L[i][2]) = "OWN"

PerspectiveInv ==
    /\ DOMAIN owner = Occupied(game)
    /\ \A cell \in Occupied(game) :
        /\ game.state[cell] \in Tokens
        /\ game.state[cell] = "OWN" <=> owner[cell] = game.current_player

NextPlayerEffect ==
    ret'.op = "next_player" =>
        /\ game'.current_player = Other(game.current_player)
        /\ Occupied(game') = Occupied(game)
        /\ \A cell \in Occupied(game) : game'.state[cell] # game.state[cell]
        /\ game'.num_stones = game.num_stones

\* C1: in every state reached by play_move and next_player calls a cell is
\* OWN exactly when its stone was dropped while the player who is now
\* current_player was active, and OPPONENT otherwise; next_player flips
\* current_player and the label of every occupied cell in one step and
\* leaves the occupied cells and the column heights as they were.
C1_Perspective == [] PerspectiveInv /\ [][NextPlayerEffect]_vars

C1_Witness ==
    /\ ret.op = "next_player"
    /\ game.current_player = "B"
    /\ \E c1, c2 \in Occupied(game) :
        game.state[c1] = "OWN" /\ game.state[c2] = "OPPONENT"

\* C2: is_win() is true exactly when four OWN cells lie in a row in one of
\* the four directions inside the grid.
C2_IsWinIffFourOwn == is_win(game) <=> FourOwn(game)

C2_Witness ==
    /\ check_diag_fall(game)
    /\ ~ check_horizontal(game) /\ ~ check_vertical(game) /\ ~ check_diag_rise(game)
    /\ \E cell \in Occupied(game) : game.state[cell] = "OPPONENT"
    /\ Get(game, NUM_COLS - 1, 0) = "OWN"

OpenCols(g) == {c \in Cols : g.num_stones[c] < NUM_ROWS}

Ascending(s) == \A i, j \in 1 .. Len(s) : i < j => s[i] < s[j]

BoardFull(g) == Cardinality(Occupied(g)) = NUM_COLS * NUM_ROWS

\* C3: legal_moves() is empty exactly when is_terminal() is true, which is
\* is_win() or all 42 cells occupied; otherwise it lists the columns whose
\* height is below 6, in ascending order.
C3_LegalMoves ==
    LET moves == legal_moves(game)
    IN  /\ is_terminal(game) <=> (is_win(game) \/ BoardFull(game))
        /\ moves = << >> <=> is_terminal(game)
        /\ ~ is_terminal(game) =>
            /\ {moves[i] : i \in 1 .. Len(moves)} = OpenCols(game)
            /\ Ascending(moves)

C3_Witness ==
    /\ BoardFull(game)
    /\ ~ is_win(game)
    /\ legal_moves(game) = << >>

RECURSIVE SumHeights(_, _)
SumHeights(h, c) == IF c >= NUM_COLS THEN 0 ELSE h[c] + SumHeights(h, c + 1)

\* C4: num_stones[c] is the number of successful drops into c and the
\* number of occupied cells of column c, which are the rows below
\* num_stones[c]; it never exceeds 6; the occupied cells are as many as the
\* heights add up to.
C4_Heights ==
    /\ \A c \in Cols :
        /\ game.num_stones[c] = drops[c]
        /\ game.num_stones[c] <= NUM_ROWS
        /\ {cell \in Occupied(game) : cell[1] = c}
             = {<<c, r>> : r \in 0 .. (game.num_stones[c] - 1)}
    /\ Cardinality(Occupied(game)) = SumHeights(game.num_stones, 0)

C4_Witness ==
    /\ \E c \in Cols : drops[c] = NUM_ROWS /\ ret = Call("play_move", c, "None", 0)
    /\ \E c \in Cols : drops[c] = 0

\* C5: play_move with a column past the last one returns None, without a
\* panic (as the specification states it; the code indexes num_stones first).
C5_OutOfRangeIsNone ==
    (ret.op = "play_move" /\ ret.arg >= NUM_COLS) => ret.kind = "None"

\* C6: play_move on a column of height 6 returns None and changes nothing.
C6_FullColumn ==
    [][ (/\ ret'.op = "play_move"
         /\ ret'.arg \in Cols
         /\ game.num_stones[ret'.arg] = NUM_ROWS)
        => (ret'.kind = "None" /\ game' = game) ]_vars

C6_Witness ==
    /\ ret.op = "play_move"
    /\ ret.kind = "None"
    /\ ret.arg \in Cols
    /\ game.num_stones[ret.arg] = NUM_ROWS
    /\ \E cell \in Occupied(game) : game.state[cell] = "OWN"

\* C7: play_move on a column of height h < 6 returns Some(h), puts an OWN
\* stone at (col, h), raises num_stones[col] by one, and leaves
\* current_player, the other heights and every other cell as they were.
C7_Drop ==
    [][ (/\ ret'.op = "play_move"
         /\ ret'.arg \in Cols
         /\ game.num_stones[ret'.arg] < NUM_ROWS)
        => LET col == ret'.arg
               h   == game.num_stones[col]
           IN  /\ ret'.kind = "Some"
               /\ ret'.val = h
               /\ <<col, h>> \notin Occupied(game)
               /\ Occupied(game') = Occupied(game) \cup {<<col, h>>}
               /\ game'.state[<<col, h>>] = "OWN"
               /\ \A cell \in Occupied(game) : game'.state[cell] = game.state[cell]
               /\ game'.num_stones = [game.num_stones EXCEPT ![col] = h + 1]
               /\ game'.current_player = game.current_player ]_vars

C7_Witness ==
    /\ ret.op = "play_move"
    /\ ret.kind = "Some"
    /\ ret.val = NUM_ROWS - 1
    /\ game.current_player = "B"
    /\ \E cell \in Occupied(game) : game.state[cell] = "OPPONENT"

\* ------------------------------------------------------------------------
\* Properties of the engine (SpecMcts)
\* ------------------------------------------------------------------------
RootNode(mc) == mc.graph.nodes[mc.root]

RootEdges(mc) == {mc.graph.edges[i] : i \in {j \in 1 .. Len(mc.graph.edges) :
                                               mc.graph.edges[j].source = mc.root}}

\* C8: whenever the root has a child, best_move returns a column in [0,7)
\* that is a legal move of the root snapshot (as the specification states it; the code
\* panics while a child of the root is unvisited).
C8_BestMoveWithChild ==
    (ret.op = "best_move" /\ RootEdges(mcts) # {}) =>
        /\ ret.kind = "Some"
        /\ ret.val \in Cols
        /\ RootNode(mcts).state.num_stones[ret.val] < NUM_ROWS

\* C9: after execute_move(m) the root is the target of the old root's edge
\* labelled m; its snapshot has column m one higher, the other heights
\* equal, and the other player as current_player.
C9_ExecuteMove ==
    [][ (ret'.op = "execute_move" /\ ret'.kind = "Unit")
        => LET m   == ret'.arg
               old == RootNode(mcts).state
               new == RootNode(mcts').state
           IN  /\ mcts'.graph = mcts.graph
               /\ \E e \in RootEdges(mcts) : e.weight = m /\ e.target = mcts'.root
               /\ m \in Cols
               /\ new.num_stones = [old.num_stones EXCEPT ![m] = @ + 1]
               /\ new.current_player = Other(old.current_player) ]_vars

C9_Witness ==
    /\ ret.op = "execute_move"
    /\ ret.kind = "Unit"
    /\ RootNode(mcts).state.num_stones[ret.arg] = 2
    /\ RootNode(mcts).state.current_player = "A"

\* C10: best_move on a root without children, and execute_move(m) on a root
\* without an edge labelled m, panic and leave the root and the graph as
\* they were.
C10_FailLoud ==
    [][ (\/ ret'.op = "best_move" /\ RootEdges(mcts) = {}
         \/ /\ ret'.op = "execute_move"
            /\ \A e \in RootEdges(mcts) : e.weight # ret'.arg)
        => (ret'.kind = "Panic" /\ mcts' = mcts) ]_vars

C10_Witness ==
    /\ ret.op = "best_move"
    /\ ret.kind = "Panic"
    /\ is_win(RootNode(mcts).state)
    /\ RootNode(mcts).visits >= 1
    /\ Len(mcts.graph.nodes) > 1

\* ------------------------------------------------------------------------
\* Properties of the search (SpecMcts)
\* ------------------------------------------------------------------------
NodeIds(mc) == 1 .. Len(mc.graph.nodes)

OutEdges(mc, n) == {mc.graph.edges[i] : i \in {j \in 1 .. Len(mc.graph.edges) :
                                                 mc.graph.edges[j].source = n}}

ChildrenOf(mc, n) == {e.target : e \in OutEdges(mc, n)}

\* The visit counts a parent can have in the runs checked here.
ParentVisits == 0 .. 16

UcbZeroVisit ==
    \A n \in NodeIds(mcts) : \A pv \in ParentVisits :
        mcts.graph.nodes[n].visits = 0 =>
            ucb(mcts.graph.nodes[n], [mcts.graph.nodes[n] EXCEPT !.visits = pv]) = F32_MAX

\* The nodes selection can come to: the root and everything below it.
RECURSIVE Below(_, _)
Below(mc, n) == {n} \cup UNION {Below(mc, c) : c \in ChildrenOf(mc, n)}

\* At the nodes selection can come to, no child has been visited twice
\* while a sibling is still unvisited.  (Below the root a node's visits
\* count the times selection stepped into it; a node that has been the
\* root also counts the iterations that started at it.)
OnceBeforeTwice ==
    \A p \in Below(mcts, mcts.root) :
        (\E c \in ChildrenOf(mcts, p) : mcts.graph.nodes[c].visits >= 2)
            => \A c \in ChildrenOf(mcts, p) : mcts.graph.nodes[c].visits >= 1

\* The path an iteration has selected never steps into a visited child
\* next to an unvisited one.
UnvisitedFirst ==
    (ret'.op = "mcts_iteration" /\ it'.pc = "rollout" /\ it.pc = "idle") =>
        \A i \in 1 .. (Len(it'.path) - 1) :
            mcts'.graph.nodes[it'.path[i + 1]].visits > 0 =>
                \A c \in ChildrenOf(mcts', it'.path[i]) :
                    mcts'.graph.nodes[c].visits > 0

\* C11: the ucb of a node with zero visits is f32::MAX whatever the parent;
\* selection never steps into a visited child while a sibling is unvisited,
\* so at every node all children are visited once before one is visited
\* twice.
C11_UnvisitedFirst ==
    /\ [] UcbZeroVisit
    /\ [] OnceBeforeTwice
    /\ [][UnvisitedFirst]_vars

C11_Witness ==
    /\ it.pc = "idle"
    /\ \A c \in ChildrenOf(mcts, mcts.root) : mcts.graph.nodes[c].visits >= 1
    /\ \E c \in ChildrenOf(mcts, mcts.root) : mcts.graph.nodes[c].visits >= 2
    /\ \E n \in NodeIds(mcts) : mcts.graph.nodes[n].visits = 0

InPath(path, n) == \E i \in 1 .. Len(path) : path[i] = n

\* What a rollout won by `winner` is worth to the mover of node n.
OwnReward(mc, n, winner) ==
    IF winner = "None" THEN 0
    ELSE IF winner = current_player(mc.graph.nodes[n].state) THEN 1
    ELSE 0 - 1

BackpropEffect ==
    (it.pc = "rollout" /\ it'.pc = "idle") =>
        LET winner == RolloutResult(it.g)
            old    == mcts.graph.nodes
            new    == mcts'.graph.nodes
        IN  /\ ret'.op = "mcts_iteration" /\ ret'.kind = "Unit"
            /\ Len(new) = Len(old)
            /\ mcts'.graph.edges = mcts.graph.edges
            /\ mcts'.root = mcts.root
            /\ \A n \in NodeIds(mcts) :
                /\ new[n].state = old[n].state
                /\ IF InPath(it.path, n)
                   THEN /\ new[n].visits = old[n].visits + 1
                        /\ new[n].value = old[n].value + OwnReward(mcts, n, winner)
                   ELSE /\ new[n].visits = old[n].visits
                        /\ new[n].value = old[n].value

\* C12: an iteration raises the visits of every node on its path by one and
\* the value by +1 when the rollout winner is the node's own current_player,
\* by -1 when it is the other player and by 0 on a draw; the nodes off the
\* path keep their visits and value.
C12_Backprop == [][BackpropEffect]_vars

C12_Witness ==
    /\ ret.op = "mcts_iteration" /\ ret.kind = "Unit"
    /\ mcts.root # 1
    /\ RootNode(mcts).visits >= 2
    /\ \E c \in ChildrenOf(mcts, mcts.root) : \E d \in ChildrenOf(mcts, c) :
        /\ mcts.graph.nodes[d].visits = 1
        /\ mcts.graph.nodes[d].value # 0
        /\ mcts.graph.nodes[c].value = 0 - mcts.graph.nodes[d].value

SeqToSet(s) == {s[i] : i \in 1 .. Len(s)}

EdgeIds(mc, n) == {j \in 1 .. Len(mc.graph.edges) : mc.graph.edges[j].source = n}

\* The nodes that have children.
Expanded(mc) == {mc.graph.edges[j].source : j \in 1 .. Len(mc.graph.edges)}

\* C13: every node has no children or one child per legal move of its
\* snapshot: the labels of its edges are pairwise distinct and are the legal
\* moves, each child's snapshot is the parent's after next_player() and
\* play_move(label), and a node with a terminal snapshot has no children.
C13_FullExpansion ==
    /\ \A n \in Expanded(mcts) : \A out \in {EdgeIds(mcts, n)} :
        LET state  == mcts.graph.nodes[n].state
            labels == {mcts.graph.edges[j].weight : j \in out}
        IN  /\ Cardinality(labels) = Cardinality(out)
            /\ labels = SeqToSet(legal_moves(state))
            /\ ~ is_terminal(state)
    /\ \A j \in 1 .. Len(mcts.graph.edges) :
        LET e == mcts.graph.edges[j]
        IN  /\ e.source \in NodeIds(mcts)
            /\ e.target \in NodeIds(mcts)
            /\ mcts.graph.nodes[e.target].state
                 = play_move(next_player(mcts.graph.nodes[e.source].state), e.weight).g

C13_Witness ==
    /\ ret.op = "mcts_iteration" /\ ret.kind = "Unit"
    /\ is_terminal(RootNode(mcts).state)
    /\ RootNode(mcts).visits >= 1
    /\ EdgeIds(mcts, mcts.root) = {}
    /\ \E n \in NodeIds(mcts) : Cardinality(EdgeIds(mcts, n)) = NUM_COLS

\* The snapshots of the tree, and the rollout clone while a rollout runs:
\* each is a state at the point of an is_terminal() check.
CheckedStates ==
    {mcts.graph.nodes[n].state : n \in NodeIds(mcts)}
        \cup (IF it.pc = "rollout" THEN {it.g} ELSE {})

\* C14: the rollout never finds a non-terminal clone without a legal move
\* after next_player(); in every tree snapshot and every rollout state the
\* OPPONENT stones hold no four in a row.
C14_NoDeadRollout ==
    /\ (it.pc = "rollout" /\ ~ is_terminal(it.g))
          => legal_moves(next_player(it.g)) # << >>
    /\ \A g \in CheckedStates : ~ is_win(next_player(g))

C14_Witness ==
    /\ it.pc = "rollout"
    /\ ~ is_terminal(it.g)
    /\ Cardinality(Occupied(it.g)) = NUM_COLS * NUM_ROWS - 1
    /\ legal_moves(next_player(it.g)) # << >>

\* A rollout pass puts one OWN stone on the clone, and the clone's
\* current_player is then the player who put it there.
RolloutMover ==
    (it.pc = "rollout" /\ it'.pc = "rollout") =>
        /\ it'.g.current_player = Other(it.g.current_player)
        /\ \E cell \in Cells \ Occupied(it.g) :
            /\ Occupied(it'.g) = Occupied(it.g) \cup {cell}
            /\ it'.g.state[cell] = "OWN"

\* The rollout of a node that is terminal already returns for the node's
\* own snapshot.
RolloutStart ==
    (it.pc = "idle" /\ it'.pc = "rollout") =>
        it'.g = mcts'.graph.nodes[Last(it'.path)].state

RolloutFaithful ==
    (it.pc = "rollout" /\ is_terminal(it.g)) =>
        LET winner == RolloutResult(it.g)
        IN  /\ winner \in Players =>
                /\ winner = it.g.current_player
                /\ FourOwn(it.g)
                /\ ~ FourOwn(next_player(it.g))
            /\ winner \notin Players =>
                /\ winner = "None"
                /\ BoardFull(it.g)
                /\ ~ FourOwn(it.g)
                /\ ~ FourOwn(next_player(it.g))

\* C15: the rollout returns Some(p) only when p moved last in the final
\* clone (or is the mover of a start node that was terminal already), p's
\* stones hold four in a row and the other player's do not; it returns None
\* only when all 42 cells are occupied and neither player has four in a row.
C15_RolloutResult ==
    /\ [] RolloutFaithful
    /\ [][RolloutMover /\ RolloutStart]_vars

C15_Witness ==
    /\ it.pc = "rollout"
    /\ BoardFull(it.g)
    /\ RolloutResult(it.g) = "None"
    /\ Len(it.path) >= 2

Stones(g) == Cardinality(Occupied(g))

\* Edges lead from a node to a node added later: a walk down the edges ends.
EdgesLeadDown ==
    \A j \in 1 .. Len(mcts.graph.edges) :
        /\ mcts.graph.edges[j].source < mcts.graph.edges[j].target
        /\ mcts.graph.edges[j].target \in NodeIds(mcts)

\* The selected path is no longer than the root's empty cells plus one, and
\* the rollout has made no more passes than its start snapshot had empty
\* cells.
IterationBounded ==
    it.pc = "rollout" =>
        LET start == mcts.graph.nodes[Last(it.path)].state
        IN  /\ Len(it.path) <= NUM_COLS * NUM_ROWS - Stones(RootNode(mcts).state) + 1
            /\ Stones(it.g) >= Stones(start)
            /\ Stones(it.g) - Stones(start) <= NUM_COLS * NUM_ROWS - Stones(start)

OneStonePerPass ==
    (it.pc = "rollout" /\ it'.pc = "rollout") => Stones(it'.g) = Stones(it.g) + 1

\* C16: every mcts_iteration comes to its end: selection walks down to a
\* node without children along a path no longer than the empty cells plus
\* one, and the rollout drops one stone per pass and stops after at most 42
\* minus the start snapshot's stones passes.
C16_IterationTerminates ==
    /\ [] EdgesLeadDown
    /\ [] IterationBounded
    /\ [][OneStonePerPass]_vars
    /\ (it.pc = "rollout") ~> (it.pc = "idle")

C16_Witness ==
    /\ it.pc = "rollout"
    /\ Len(it.path) >= 3
    /\ Stones(it.g) - Stones(mcts.graph.nodes[Last(it.path)].state) >= 10
    /\ ~ is_terminal(it.g)

\* value / visits of a visited node, compared as fractions
UtilityLeq(a, b) == a.value * b.visits <= b.value * a.visits

AllRootChildrenVisited(mc) ==
    /\ RootEdges(mc) # {}
    /\ \A e \in RootEdges(mc) : mc.graph.nodes[e.target].visits >= 1

\* The root children no other root child has a greater utility than.
BestChildren(mc) ==
    {e \in RootEdges(mc) :
        \A f \in RootEdges(mc) :
            UtilityLeq(mc.graph.nodes[f.target], mc.graph.nodes[e.target])}

\* C17: with every root child visited, best_move returns the label and the
\* utility (value / visits, nothing added) of a root child of greatest
\* utility; among several it is the one created first, which has the lowest
\* column.
C17_BestMove ==
    (ret.op = "best_move" /\ AllRootChildrenVisited(mcts)) =>
        /\ ret.kind = "Some"
        /\ \E e \in BestChildren(mcts) :
            /\ ret.val = e.weight
            /\ ret.utility = F32Div(mcts.graph.nodes[e.target].value,
                                    mcts.graph.nodes[e.target].visits)
            /\ \A f \in BestChildren(mcts) :
                e.target <= f.target /\ e.weight <= f.weight

C17_Witness ==
    /\ ret.op = "best_move"
    /\ ret.kind = "Some"
    /\ AllRootChildrenVisited(mcts)
    /\ Cardinality(BestChildren(mcts)) >= 2
    /\ Cardinality(BestChildren(mcts)) < Cardinality(RootEdges(mcts))

ExecuteFrame ==
    ret'.op = "execute_move" =>
        /\ mcts'.graph.nodes = mcts.graph.nodes
        /\ mcts'.graph.edges = mcts.graph.edges

\* No call takes a node or an edge away or alters a snapshot.
GraphGrows ==
    /\ Len(mcts'.graph.nodes) >= Len(mcts.graph.nodes)
    /\ \A n \in NodeIds(mcts) : mcts'.graph.nodes[n].state = mcts.graph.nodes[n].state
    /\ Len(mcts'.graph.edges) >= Len(mcts.graph.edges)
    /\ \A j \in 1 .. Len(mcts.graph.edges) : mcts'.graph.edges[j] = mcts.graph.edges[j]

\* C19: execute_move changes the root and nothing else: the nodes, their
\* visits, value and snapshot, and the edges are what they were; over any
\* run of mcts_iteration and execute_move calls the graph never loses a
\* node.
C19_ExecuteFrame == [][ExecuteFrame /\ GraphGrows]_vars

C19_Witness ==
    /\ ret.op = "execute_move"
    /\ ret.kind = "Unit"
    /\ RootNode(mcts).visits >= 1
    /\ \E c \in ChildrenOf(mcts, mcts.root) : mcts.graph.nodes[c].visits >= 1
    /\ \E n \in NodeIds(mcts) \ Below(mcts, mcts.root) : mcts.graph.nodes[n].visits >= 1

RECURSIVE SumVisits(_, _)
SumVisits(mc, S) ==
    IF S = {} THEN 0
    ELSE LET n == CHOOSE x \in S : TRUE
         IN  mc.graph.nodes[n].visits + SumVisits(mc, S \ {n})

\* C20: every node below the root (the root included) has at least as many
\* visits as its children have together; so a visited child is scored
\* against a visited parent, the score is never NaN, and the
\* partial_cmp(..).unwrap() of select_next_child does not panic.
C20_VisitsInv ==
    /\ \A p \in Below(mcts, mcts.root) :
        /\ mcts.graph.nodes[p].visits >= SumVisits(mcts, ChildrenOf(mcts, p))
        /\ \A c \in ChildrenOf(mcts, p) :
            /\ mcts.graph.nodes[c].visits >= 1 => mcts.graph.nodes[p].visits >= 1
            /\ ucb(mcts.graph.nodes[c], mcts.graph.nodes[p]) # F32_NAN
        /\ \A seed \in Seeds : select_next_child(mcts, p, seed).kind # "Panic"
    /\ ret.op = "mcts_iteration" => ret.kind # "Panic"

C20_Witness ==
    /\ ret.op = "mcts_iteration" /\ ret.kind = "Unit"
    /\ mcts.root # 1
    /\ RootNode(mcts).visits >= 2
    /\ \E c \in ChildrenOf(mcts, mcts.root) :
        /\ mcts.graph.nodes[c].visits >= 1
        /\ ChildrenOf(mcts, c) # {}
        /\ mcts.graph.nodes[c].visits = SumVisits(mcts, ChildrenOf(mcts, c))

\* ------------------------------------------------------------------------
\* Properties of the program (SpecMain)
\* ------------------------------------------------------------------------
\* C18: after every legal move made on the board by show_move and in the
\* engine by execute_move on an explored edge, the root snapshot is the
\* board: the same heights, the same current_player and the same label on
\* every occupied cell (as the specification states it; the snapshot of a
\* child is made by next_player() and then play_move(m), so its labels are
\* the other way round).
C18_RootIsBoard ==
    (ret.op = "move" /\ ret.kind = "Unit" /\ ret.val = 1) =>
        /\ RootNode(mcts).state.num_stones = game.num_stones
        /\ RootNode(mcts).state.current_player = game.current_player
        /\ RootNode(mcts).state.state = game.state

====
